---- MODULE Spec2Model ----
(***************************************************************************)
(* E-com Profit Pro (src/App.tsx): the App component's state (inputs,      *)
(* theme, tab), its event handlers, and the two memoised derivations       *)
(* results (funnel and cost calculator) and chartData (distribution).      *)
(*                                                                         *)
(* JavaScript numbers are modelled as exact rationals [n, d] in lowest     *)
(* terms with d > 0, so that fractional counts and percentages are         *)
(* computed as the formulas compute them; IEEE rounding is not modelled.   *)
(***************************************************************************)
EXTENDS Integers, Sequences, FiniteSets, TLC

VARIABLES activeTab, isDarkMode, storedTheme, inputs, results, chartData,
          nEdits, pc

vars == <<activeTab, isDarkMode, storedTheme, inputs, results, chartData,
          nEdits, pc>>

(* ---------------------------- bounds ---------------------------------- *)
\* text edits allowed in one behaviour of the UI specification
MaxEdits == 1
\* largest totalOrders the plus button is allowed to reach
MaxOrders == 11

(* ------------------------- number arithmetic -------------------------- *)
Abs(x) == IF x < 0 THEN -x ELSE x

RECURSIVE GCD(_, _)
GCD(a, b) == IF b = 0 THEN a ELSE GCD(b, a % b)

\* the number n/d (d # 0) in lowest terms with a positive denominator
Rat(n, d) ==
    LET g == GCD(Abs(n), Abs(d))
        s == IF d < 0 THEN -1 ELSE 1
    IN  [n |-> s * (n \div g), d |-> s * (d \div g)]

Num(i) == [n |-> i, d |-> 1]
Zero == Num(0)

RAdd(a, b) == Rat(a.n * b.d + b.n * a.d, a.d * b.d)
RSub(a, b) == Rat(a.n * b.d - b.n * a.d, a.d * b.d)
RMul(a, b) == Rat(a.n * b.n, a.d * b.d)
RDiv(a, b) == Rat(a.n * b.d, a.d * b.n)
RGt(a, b) == a.n * b.d > b.n * a.d
RGe(a, b) == a.n * b.d >= b.n * a.d
\* Math.max(a, b)
MathMax(a, b) == IF RGe(a, b) THEN a ELSE b

(* ------------------------------ parseFloat ---------------------------- *)
Digits == {"0", "1", "2", "3", "4", "5", "6", "7", "8", "9"}
DigitVal(c) ==
    CASE c = "0" -> 0 [] c = "1" -> 1 [] c = "2" -> 2 [] c = "3" -> 3
      [] c = "4" -> 4 [] c = "5" -> 5 [] c = "6" -> 6 [] c = "7" -> 7
      [] c = "8" -> 8 [] c = "9" -> 9

\* first index >= i of s that is not a digit (Len(s) + 1 when none)
RECURSIVE DigitsEnd(_, _)
DigitsEnd(s, i) ==
    IF i <= Len(s) /\ s[i] \in Digits THEN DigitsEnd(s, i + 1) ELSE i

\* the decimal value of the digits s[i .. j-1]
RECURSIVE DigitsVal(_, _, _)
DigitsVal(s, i, j) ==
    IF j <= i THEN 0 ELSE 10 * DigitsVal(s, i, j - 1) + DigitVal(s[j - 1])

RECURSIVE Pow10(_)
Pow10(k) == IF k = 0 THEN 1 ELSE 10 * Pow10(k - 1)

\* NaN, the value of 0/0: a number that equals no rational
NaN == [n |-> 0, d |-> 0]

\* parseFloat(s) for a text s given as a sequence of characters: an optional
\* sign, digits, an optional fraction; anything after the longest numeric
\* prefix is ignored; NaN when there is no digit at all.
parseFloat(s) ==
    LET neg  == Len(s) >= 1 /\ s[1] = "-"
        i0   == IF Len(s) >= 1 /\ s[1] \in {"-", "+"} THEN 2 ELSE 1
        i1   == DigitsEnd(s, i0)
        dot  == i1 <= Len(s) /\ s[i1] = "."
        f0   == i1 + 1
        f1   == IF dot THEN DigitsEnd(s, f0) ELSE f0
        nfr  == f1 - f0
        mag  == Rat(DigitsVal(s, i0, i1) * Pow10(nfr) + DigitsVal(s, f0, f1),
                    Pow10(nfr))
    IN  IF i1 = i0 /\ nfr = 0 THEN NaN
        ELSE IF neg THEN RSub(Zero, mag) ELSE mag

\* x || 0 on a number: NaN and 0 are falsy
OrZero(x) == IF x = NaN \/ x = Zero THEN Zero ELSE x

(* --------------------------- the inputs record ------------------------ *)
Fields == {"totalOrders", "cancelledOverCall", "rtoPercentage",
           "sellingPrice", "productCost", "adCostPerOrder",
           "adGstPercentage", "shippingCost", "rtoShippingCost",
           "productDamageRtoPercentage", "packingCost", "miscellaneous"}

\* the literal of useState<CalculatorInputs>(...)
InitialInputs ==
    [totalOrders |-> Num(10), cancelledOverCall |-> Num(0),
     rtoPercentage |-> Num(10), sellingPrice |-> Num(600),
     productCost |-> Num(100), adCostPerOrder |-> Num(100),
     adGstPercentage |-> Num(18), shippingCost |-> Num(50),
     rtoShippingCost |-> Num(72), productDamageRtoPercentage |-> Num(0),
     packingCost |-> Num(10), miscellaneous |-> Num(5)]

(* ------------------- results: funnel and cost calculator -------------- *)
\* a bug: the subtraction without the clamp at 0
orderToBeShippedUnclamped(totalOrders, cancelledOverCall) ==
    RSub(totalOrders, cancelledOverCall)

orderToBeShippedOf(totalOrders, cancelledOverCall) ==
    MathMax(Zero, RSub(totalOrders, cancelledOverCall))

rtoCountOf(orderToBeShipped, rtoPercentage) ==
    RMul(orderToBeShipped, RDiv(rtoPercentage, Num(100)))

\* a bug: the subtraction without the clamp at 0
deliveredOrdersUnclamped(orderToBeShipped, rtoCount) ==
    RSub(orderToBeShipped, rtoCount)

deliveredOrdersOf(orderToBeShipped, rtoCount) ==
    MathMax(Zero, RSub(orderToBeShipped, rtoCount))

totalDamageLossOf(rtoCount, productCost, productDamageRtoPercentage) ==
    RMul(RMul(rtoCount, productCost),
         RDiv(productDamageRtoPercentage, Num(100)))

\* a bug: advertising charged on the shipped orders only
totalAdCostShippedOnly(inp) ==
    RMul(RMul(MathMax(Zero, RSub(inp.totalOrders, inp.cancelledOverCall)),
              inp.adCostPerOrder),
         RAdd(Num(1), RDiv(inp.adGstPercentage, Num(100))))

totalAdCostOf(inp) ==
    RMul(RMul(inp.totalOrders, inp.adCostPerOrder),
         RAdd(Num(1), RDiv(inp.adGstPercentage, Num(100))))

\* a bug: the damage loss left out of the sum
totalExpensesNoDamage(product, ad, shipping, rtoShipping, damage, packing, misc) ==
    RAdd(RAdd(RAdd(RAdd(RAdd(product, ad), shipping), rtoShipping),
              packing), misc)

totalExpensesOf(product, ad, shipping, rtoShipping, damage, packing, misc) ==
    RAdd(RAdd(RAdd(RAdd(RAdd(RAdd(product, ad), shipping), rtoShipping),
                   damage), packing), misc)

\* a bug: netProfit / (totalRevenue || 1) * 100 in place of the zero guard
profitMarginOrOne(netProfit, totalRevenue) ==
    RMul(RDiv(netProfit, IF totalRevenue = Zero THEN Num(1) ELSE totalRevenue),
         Num(100))

profitMarginOf(netProfit, totalRevenue) ==
    IF RGt(totalRevenue, Zero)
    THEN RMul(RDiv(netProfit, totalRevenue), Num(100))
    ELSE Zero

compute(inp) ==
    LET orderToBeShipped ==
            orderToBeShippedOf(inp.totalOrders, inp.cancelledOverCall)
        rtoCount == rtoCountOf(orderToBeShipped, inp.rtoPercentage)
        deliveredOrders == deliveredOrdersOf(orderToBeShipped, rtoCount)
        totalRevenue == RMul(deliveredOrders, inp.sellingPrice)
        totalProductCost == RMul(deliveredOrders, inp.productCost)
        totalDamageLoss ==
            totalDamageLossOf(rtoCount, inp.productCost,
                              inp.productDamageRtoPercentage)
        totalAdCost == totalAdCostOf(inp)
        totalShippingCost == RMul(orderToBeShipped, inp.shippingCost)
        totalRtoShipping == RMul(rtoCount, inp.rtoShippingCost)
        totalPackingCost == RMul(orderToBeShipped, inp.packingCost)
        totalMiscellaneous == inp.miscellaneous
        totalExpenses ==
            totalExpensesOf(totalProductCost, totalAdCost, totalShippingCost,
                            totalRtoShipping, totalDamageLoss,
                            totalPackingCost, totalMiscellaneous)
        netProfit == RSub(totalRevenue, totalExpenses)
        profitMargin == profitMarginOf(netProfit, totalRevenue)
    IN  [orderToBeShipped |-> orderToBeShipped, rtoCount |-> rtoCount,
         deliveredOrders |-> deliveredOrders, totalRevenue |-> totalRevenue,
         totalProductCost |-> totalProductCost, totalAdCost |-> totalAdCost,
         totalShippingCost |-> totalShippingCost,
         totalRtoShipping |-> totalRtoShipping,
         totalDamageLoss |-> totalDamageLoss,
         totalPackingCost |-> totalPackingCost,
         totalMiscellaneous |-> totalMiscellaneous,
         totalExpenses |-> totalExpenses, netProfit |-> netProfit,
         profitMargin |-> profitMargin]

(* ---------------------- chartData: the distribution ------------------- *)
COLORS == <<"#4F46E5", "#EF4444", "#F59E0B", "#10B981", "#6366F1",
            "#8B5CF6", "#EC4899">>

\* the seven (name, value) pairs in declaration order
chartRows(res) ==
    << [name |-> "Product", value |-> res.totalProductCost],
       [name |-> "Ads", value |-> res.totalAdCost],
       [name |-> "Forward Shipping", value |-> res.totalShippingCost],
       [name |-> "RTO Shipping", value |-> res.totalRtoShipping],
       [name |-> "Packing", value |-> res.totalPackingCost],
       [name |-> "RTO Loss", value |-> res.totalDamageLoss],
       [name |-> "Misc", value |-> res.totalMiscellaneous] >>

\* a bug: item.value >= 0 as the filter
keepRowNonNegative(item) == RGe(item.value, Zero)

\* the predicate of .filter(item => item.value > 0)
keepRow(item) == RGt(item.value, Zero)

\* COLORS[index % COLORS.length] for the 0-based index
colorAt(index) == COLORS[(index % Len(COLORS)) + 1]

percentageOf(value, total) ==
    IF RGt(total, Zero) THEN RMul(RDiv(value, total), Num(100)) ELSE Zero

\* a bug: the share of expenses divided by the revenue
percentageOfExpensesByRevenue(value, res) ==
    percentageOf(value, res.totalRevenue)

percentageOfExpensesOf(value, res) == percentageOf(value, res.totalExpenses)

\* a bug: the color taken at the declaration position of the component
distributeByDeclaration(res) ==
    LET rows == chartRows(res)
        kept == SelectSeq(rows, keepRow)
        declared(i) == CHOOSE k \in 1..Len(rows) : rows[k].name = kept[i].name
    IN  [i \in 1..Len(kept) |->
            [name |-> kept[i].name, value |-> kept[i].value,
             color |-> colorAt(declared(i) - 1),
             percentageOfRevenue |->
                 percentageOf(kept[i].value, res.totalRevenue),
             percentageOfExpenses |->
                 percentageOfExpensesOf(kept[i].value, res)]]

distribute(res) ==
    LET kept == SelectSeq(chartRows(res), keepRow)
    IN  [i \in 1..Len(kept) |->
            [name |-> kept[i].name, value |-> kept[i].value,
             color |-> colorAt(i - 1),
             percentageOfRevenue |->
                 percentageOf(kept[i].value, res.totalRevenue),
             percentageOfExpenses |->
                 percentageOfExpensesOf(kept[i].value, res)]]

(* ------------------------------ the App ------------------------------- *)
Tabs == {"dashboard", "orders", "costs"}

\* what localStorage.getItem('theme') can return at startup
SavedThemes == {"null", "dark", "light"}

\* the value the theme effect writes to localStorage
themeName(dark) == IF dark THEN "dark" ELSE "light"

\* the fields that have an InputGroup (a text field)
TextFields == {"cancelledOverCall", "rtoPercentage", "sellingPrice",
               "productCost", "adCostPerOrder", "adGstPercentage",
               "shippingCost", "rtoShippingCost", "packingCost",
               "miscellaneous"}

\* the texts typed into a text field
Texts == { <<>>, <<"x">>, <<"-", "5">>, <<"2", ".", "5">> }

Str(s) == [type |-> "string", text |-> s]
Number(x) == [type |-> "number", num |-> x]

\* typeof value === 'string' ? (parseFloat(value) || 0) : value
numValueOf(value) ==
    IF value.type = "string" THEN OrZero(parseFloat(value.text))
    ELSE value.num

\* a bug: the field merged into the initial record, not into prev
mergeFieldIntoInitial(prev, field, numValue) ==
    [InitialInputs EXCEPT ![field] = numValue]

\* { ...prev, [field]: numValue }
mergeField(prev, field, numValue) == [prev EXCEPT ![field] = numValue]

\* a bug: the memos keep their previous values after a setInputs
RerenderStale ==
    /\ results' = results
    /\ chartData' = chartData

\* the render that follows a setInputs: both memos are recomputed
Rerender ==
    /\ results' = compute(inputs')
    /\ chartData' = distribute(results')

Init ==
    /\ activeTab = "dashboard"
    /\ \E saved \in SavedThemes : isDarkMode = (saved = "dark")
    /\ storedTheme = themeName(isDarkMode)
    /\ inputs = InitialInputs
    /\ results = compute(inputs)
    /\ chartData = distribute(results)
    /\ nEdits = 0
    /\ pc = "app"

handleInputChange(field, value) ==
    /\ pc = "app"
    /\ inputs' = mergeField(inputs, field, numValueOf(value))
    /\ Rerender
    /\ UNCHANGED <<activeTab, isDarkMode, storedTheme, pc>>

\* the minus button of CounterInput
CounterMinus ==
    /\ handleInputChange("totalOrders",
           Number(MathMax(Zero, RSub(inputs.totalOrders, Num(1)))))
    /\ UNCHANGED nEdits

\* the plus button of CounterInput
CounterPlus ==
    /\ RGt(Num(MaxOrders), inputs.totalOrders)
    /\ handleInputChange("totalOrders",
           Number(RAdd(inputs.totalOrders, Num(1))))
    /\ UNCHANGED nEdits

\* onChange of an InputGroup
InputGroupChange(field, text) ==
    /\ nEdits < MaxEdits
    /\ nEdits' = nEdits + 1
    /\ handleInputChange(field, Str(text))

\* a bug: a reset literal that has drifted from the initial literal
resetInputsDrifted ==
    /\ pc = "app"
    /\ inputs' =
         [totalOrders |-> Num(10), cancelledOverCall |-> Num(0),
          rtoPercentage |-> Num(10), sellingPrice |-> Num(600),
          productCost |-> Num(100), adCostPerOrder |-> Num(100),
          adGstPercentage |-> Num(0), shippingCost |-> Num(50),
          rtoShippingCost |-> Num(72), productDamageRtoPercentage |-> Num(0),
          packingCost |-> Num(10), miscellaneous |-> Num(5)]
    /\ Rerender
    /\ UNCHANGED <<activeTab, isDarkMode, storedTheme, nEdits, pc>>

resetInputs ==
    /\ pc = "app"
    /\ inputs' =
         [totalOrders |-> Num(10), cancelledOverCall |-> Num(0),
          rtoPercentage |-> Num(10), sellingPrice |-> Num(600),
          productCost |-> Num(100), adCostPerOrder |-> Num(100),
          adGstPercentage |-> Num(18), shippingCost |-> Num(50),
          rtoShippingCost |-> Num(72), productDamageRtoPercentage |-> Num(0),
          packingCost |-> Num(10), miscellaneous |-> Num(5)]
    /\ Rerender
    /\ UNCHANGED <<activeTab, isDarkMode, storedTheme, nEdits, pc>>

\* a bug: the theme switch remounts the calculator with its initial inputs
toggleThemeRemount ==
    /\ pc = "app"
    /\ isDarkMode' = ~isDarkMode
    /\ storedTheme' = themeName(isDarkMode')
    /\ inputs' = InitialInputs
    /\ Rerender
    /\ UNCHANGED <<activeTab, nEdits, pc>>

\* onClick of the theme button, with the effect that persists the theme;
\* inputs is the same object, so neither memo is recomputed
toggleTheme ==
    /\ pc = "app"
    /\ isDarkMode' = ~isDarkMode
    /\ storedTheme' = themeName(isDarkMode')
    /\ UNCHANGED <<activeTab, inputs, results, chartData, nEdits, pc>>

setActiveTab(tab) ==
    /\ pc = "app"
    /\ activeTab' = tab
    /\ UNCHANGED <<isDarkMode, storedTheme, inputs, results, chartData,
                   nEdits, pc>>

Next ==
    \/ CounterMinus
    \/ CounterPlus
    \/ \E field \in TextFields, text \in Texts : InputGroupChange(field, text)
    \/ resetInputs
    \/ toggleTheme
    \/ \E tab \in Tabs : setActiveTab(tab)

Spec == Init /\ [][Next]_vars

(* -------- the two derivations applied to arbitrary input records ------ *)
CalcInputs ==
    [totalOrders : {Num(-3), Num(0), Num(10)},
     cancelledOverCall : {Num(-5), Num(0), Num(10), Num(15)},
     rtoPercentage : {Num(-10), Num(10), Num(100), Num(150)},
     sellingPrice : {Num(0), Num(600)},
     productCost : {Num(0), Num(100)},
     adCostPerOrder : {Num(0), Num(100)},
     adGstPercentage : {Num(18)},
     shippingCost : {Num(0), Num(50)},
     rtoShippingCost : {Num(72)},
     productDamageRtoPercentage : {Num(0), Num(50)},
     packingCost : {Num(0), Num(10)},
     miscellaneous : {Num(-5), Num(0), Num(5)}]

NoResults ==
    [f \in {"orderToBeShipped", "rtoCount", "deliveredOrders", "totalRevenue",
            "totalProductCost", "totalAdCost", "totalShippingCost",
            "totalRtoShipping", "totalDamageLoss", "totalPackingCost",
            "totalMiscellaneous", "totalExpenses", "netProfit",
            "profitMargin"} |-> Zero]

InitCalc ==
    /\ activeTab = "dashboard"
    /\ isDarkMode = FALSE
    /\ storedTheme = "light"
    /\ inputs \in CalcInputs
    /\ results = NoResults
    /\ chartData = <<>>
    /\ nEdits = 0
    /\ pc = "inputs"

\* the body of the results memo
Compute ==
    /\ pc = "inputs"
    /\ results' = compute(inputs)
    /\ pc' = "results"
    /\ UNCHANGED <<activeTab, isDarkMode, storedTheme, inputs, chartData,
                   nEdits>>

\* the body of the chartData memo
Distribute ==
    /\ pc = "results"
    /\ chartData' = distribute(results)
    /\ pc' = "chart"
    /\ UNCHANGED <<activeTab, isDarkMode, storedTheme, inputs, results,
                   nEdits>>

NextCalc == Compute \/ Distribute

SpecCalc == InitCalc /\ [][NextCalc]_vars

(* ============================ properties ============================== *)
NonNeg(x) == x.n >= 0
Positive(x) == x.n > 0
Computed == pc \in {"results", "chart"}

ComponentNames == <<"Product", "Ads", "Forward Shipping", "RTO Shipping",
                    "Packing", "RTO Loss", "Misc">>

ComponentValue(res, name) ==
    CASE name = "Product" -> res.totalProductCost
      [] name = "Ads" -> res.totalAdCost
      [] name = "Forward Shipping" -> res.totalShippingCost
      [] name = "RTO Shipping" -> res.totalRtoShipping
      [] name = "Packing" -> res.totalPackingCost
      [] name = "RTO Loss" -> res.totalDamageLoss
      [] name = "Misc" -> res.totalMiscellaneous

PositionOf(name) == CHOOSE k \in 1..Len(ComponentNames) : ComponentNames[k] = name

AllComponentsPositive(res) ==
    \A k \in 1..Len(ComponentNames) : Positive(ComponentValue(res, ComponentNames[k]))

RECURSIVE SumPercentageOfExpenses(_, _)
SumPercentageOfExpenses(list, k) ==
    IF k = 0 THEN Zero
    ELSE RAdd(SumPercentageOfExpenses(list, k - 1), list[k].percentageOfExpenses)

\* C1: for every input record, whatever the sign and size of totalOrders,
\* cancelledOverCall and rtoPercentage, the computed orderToBeShipped and
\* deliveredOrders are >= 0.
C1_CountsNonNegative ==
    Computed => /\ NonNeg(results.orderToBeShipped)
                /\ NonNeg(results.deliveredOrders)

\* rtoPercentage 150 of 10 shipped orders: 15 returns, deliveries clamped to 0
C1_Witness ==
    /\ Computed
    /\ inputs.rtoPercentage = Num(150)
    /\ results.orderToBeShipped = Num(10)
    /\ results.rtoCount = Num(15)
    /\ results.deliveredOrders = Zero

\* C2 (as stated): in every reachable state of the App every results field
\* other than netProfit and profitMargin is >= 0.
C2_OnlyProfitNegative ==
    /\ NonNeg(results.orderToBeShipped)
    /\ NonNeg(results.rtoCount)
    /\ NonNeg(results.deliveredOrders)
    /\ NonNeg(results.totalRevenue)
    /\ \A k \in 1..Len(ComponentNames) :
          NonNeg(ComponentValue(results, ComponentNames[k]))
    /\ NonNeg(results.totalExpenses)

TypedInputsNonNegative ==
    \A f \in TextFields \ {"cancelledOverCall"} : NonNeg(inputs[f])

\* C2 (amended): in every reachable state of the App orderToBeShipped and
\* deliveredOrders are >= 0, and while every typed rate and amount
\* (rtoPercentage, the prices and costs, miscellaneous) is >= 0 so are
\* rtoCount, totalRevenue, the seven expense components and totalExpenses.
C2_NonNegativeWhileInputsAre ==
    /\ NonNeg(results.orderToBeShipped)
    /\ NonNeg(results.deliveredOrders)
    /\ TypedInputsNonNegative => C2_OnlyProfitNegative

\* cancelledOverCall typed as 2.5 with totalOrders clicked down below it:
\* nothing shipped
C2_Witness ==
    /\ pc = "app"
    /\ nEdits > 0
    /\ RGt(inputs.cancelledOverCall, inputs.totalOrders)
    /\ TypedInputsNonNegative
    /\ results.orderToBeShipped = Zero
    /\ results.netProfit.n < 0

\* C3: profitMargin is netProfit / totalRevenue * 100 when totalRevenue > 0
\* and exactly 0 otherwise, also when the expenses are not 0.
C3_ProfitMargin ==
    Computed =>
       IF Positive(results.totalRevenue)
       THEN RMul(results.profitMargin, results.totalRevenue)
               = RMul(Num(100), results.netProfit)
       ELSE results.profitMargin = Zero

\* full RTO: revenue 0, expenses not 0, margin 0
C3_Witness ==
    /\ Computed
    /\ inputs.rtoPercentage = Num(100)
    /\ inputs.totalOrders = Num(10)
    /\ results.totalRevenue = Zero
    /\ results.totalExpenses # Zero
    /\ results.profitMargin = Zero

\* C4: totalExpenses is exactly the sum of the seven expense components and
\* netProfit is totalRevenue - totalExpenses.
C4_ExpensesAreTheSum ==
    Computed =>
       /\ results.totalExpenses =
             RAdd(results.totalMiscellaneous,
               RAdd(results.totalPackingCost,
                 RAdd(results.totalDamageLoss,
                   RAdd(results.totalRtoShipping,
                     RAdd(results.totalShippingCost,
                       RAdd(results.totalAdCost, results.totalProductCost))))))
       /\ RAdd(results.netProfit, results.totalExpenses) = results.totalRevenue

\* every component, the damage loss included, contributes
C4_Witness ==
    /\ Computed
    /\ AllComponentsPositive(results)
    /\ results.netProfit.n < 0

\* C5: the distribution holds exactly the components whose value is > 0, in
\* the declaration order Product, Ads, Forward Shipping, RTO Shipping,
\* Packing, RTO Loss, Misc; it is empty when no component is positive.
C5_PositiveInDeclarationOrder ==
    pc = "chart" =>
       /\ \A i \in 1..Len(chartData) :
             /\ chartData[i].name \in {ComponentNames[k] : k \in 1..Len(ComponentNames)}
             /\ chartData[i].value = ComponentValue(results, chartData[i].name)
             /\ Positive(chartData[i].value)
       /\ \A k \in 1..Len(ComponentNames) :
             Positive(ComponentValue(results, ComponentNames[k]))
                => \E i \in 1..Len(chartData) : chartData[i].name = ComponentNames[k]
       /\ \A i, j \in 1..Len(chartData) :
             i < j => PositionOf(chartData[i].name) < PositionOf(chartData[j].name)
       /\ (\A k \in 1..Len(ComponentNames) :
             ~Positive(ComponentValue(results, ComponentNames[k])))
                => chartData = <<>>

\* Product is 0 and Misc negative, Ads and others survive in order
C5_Witness ==
    /\ pc = "chart"
    /\ results.totalProductCost = Zero
    /\ results.totalMiscellaneous.n < 0
    /\ Len(chartData) >= 2
    /\ chartData[1].name = "Ads"

\* C6: when all seven components are positive the distribution has seven
\* entries, each percentageOfExpenses is value / totalExpenses * 100 and
\* the seven percentages sum to 100.
C6_PercentagesSumTo100 ==
    (pc = "chart" /\ AllComponentsPositive(results)) =>
       /\ Len(chartData) = 7
       /\ \A i \in 1..Len(chartData) :
             RMul(chartData[i].percentageOfExpenses, results.totalExpenses)
                = RMul(Num(100), chartData[i].value)
       /\ SumPercentageOfExpenses(chartData, Len(chartData)) = Num(100)

C6_Witness ==
    /\ pc = "chart"
    /\ AllComponentsPositive(results)
    /\ Len(chartData) = 7
    /\ results.totalRevenue # results.totalExpenses

DefaultRecord ==
    /\ inputs.totalOrders = Num(10)
    /\ inputs.cancelledOverCall = Num(0)
    /\ inputs.rtoPercentage = Num(10)
    /\ inputs.sellingPrice = Num(600)
    /\ inputs.productCost = Num(100)
    /\ inputs.adCostPerOrder = Num(100)
    /\ inputs.adGstPercentage = Num(18)
    /\ inputs.shippingCost = Num(50)
    /\ inputs.rtoShippingCost = Num(72)
    /\ inputs.productDamageRtoPercentage = Num(0)
    /\ inputs.packingCost = Num(10)
    /\ inputs.miscellaneous = Num(5)
    /\ DOMAIN inputs = Fields

ScenarioA ==
    /\ results.orderToBeShipped = Num(10)
    /\ results.rtoCount = Num(1)
    /\ results.deliveredOrders = Num(9)
    /\ results.totalRevenue = Num(5400)
    /\ results.totalProductCost = Num(900)
    /\ results.totalAdCost = Num(1180)
    /\ results.totalShippingCost = Num(500)
    /\ results.totalRtoShipping = Num(72)
    /\ results.totalDamageLoss = Num(0)
    /\ results.totalPackingCost = Num(100)
    /\ results.totalMiscellaneous = Num(5)
    /\ results.totalExpenses = Num(2757)
    /\ results.netProfit = Num(2643)

\* C7: in the initial state and right after every reset the inputs are the
\* default record and the results are those of scenario A.
C7_DefaultsAtStartAndAfterReset ==
    /\ DefaultRecord /\ ScenarioA
    /\ [][resetInputs => (DefaultRecord /\ ScenarioA)']_vars

\* the defaults are back after a text edit, with the tab and the theme
\* as they were left
C7_Witness ==
    /\ pc = "app"
    /\ nEdits > 0
    /\ activeTab = "costs"
    /\ DefaultRecord /\ ScenarioA

\* C8: when cancelledOverCall >= totalOrders nothing is shipped:
\* orderToBeShipped, the costs per shipped order and the revenue are 0;
\* totalAdCost is totalOrders * adCostPerOrder * (1 + adGstPercentage / 100)
\* whatever cancelledOverCall and rtoPercentage are.
C8_OverCancellation ==
    Computed =>
       /\ RGe(inputs.cancelledOverCall, inputs.totalOrders) =>
             /\ results.orderToBeShipped = Zero
             /\ results.totalShippingCost = Zero
             /\ results.totalPackingCost = Zero
             /\ results.totalRtoShipping = Zero
             /\ results.totalDamageLoss = Zero
             /\ results.totalProductCost = Zero
             /\ results.totalRevenue = Zero
       /\ RMul(Num(100), results.totalAdCost) =
             RMul(inputs.totalOrders,
                  RMul(inputs.adCostPerOrder,
                       RAdd(Num(100), inputs.adGstPercentage)))

\* scenario D: 15 cancelled of 10 orders, the advertising still paid for 10
C8_Witness ==
    /\ Computed
    /\ inputs.totalOrders = Num(10)
    /\ inputs.cancelledOverCall = Num(15)
    /\ inputs.adCostPerOrder = Num(100)
    /\ results.orderToBeShipped = Zero
    /\ results.totalAdCost = Num(1180)

\* C9: in every reachable state of the App totalOrders >= 0 and
\* cancelledOverCall >= 0.
C9_CountsNonNegative ==
    /\ NonNeg(inputs.totalOrders)
    /\ NonNeg(inputs.cancelledOverCall)

\* C10: a theme toggle or a tab switch leaves the inputs, the results and
\* the distribution as they are.
C10_ThemeAndTabFrame ==
    [][(isDarkMode' # isDarkMode \/ activeTab' # activeTab)
          => UNCHANGED <<inputs, results, chartData>>]_vars

\* dark theme persisted, another tab, edited inputs still in place
C10_Witness ==
    /\ pc = "app"
    /\ isDarkMode /\ storedTheme = "dark"
    /\ activeTab = "orders"
    /\ nEdits > 0
    /\ inputs.rtoPercentage = Rat(5, 2)
    /\ results.rtoCount = Rat(1, 4)

\* C11: in every reachable state of the App, after each event, the results
\* are compute of the current inputs and the distribution is distribute of
\* those results.
C11_ResultsAreCurrent ==
    /\ results = compute(inputs)
    /\ chartData = distribute(results)

\* after typing -5 as the RTO rate the displayed figures are those of the
\* edited record: negative returns, and no RTO Shipping entry in the chart
C11_Witness ==
    /\ pc = "app"
    /\ nEdits > 0
    /\ inputs.rtoPercentage = Num(-5)
    /\ inputs.totalOrders = Num(10)
    /\ results.rtoCount = Rat(-1, 2)
    /\ results.totalRtoShipping = Num(-36)
    /\ \A i \in 1..Len(chartData) : chartData[i].name # "RTO Shipping"

\* the number a typed text stands for, text by text
TypedNumber(text) ==
    CASE text = <<>> -> Num(0)
      [] text = <<"x">> -> Num(0)
      [] text = <<"-", "5">> -> Num(-5)
      [] text = <<"2", ".", "5">> -> Rat(5, 2)

OthersUnchanged(field) ==
    /\ DOMAIN inputs' = DOMAIN inputs
    /\ \A g \in Fields \ {field} : inputs'[g] = inputs[g]

\* C12: a field edit sets exactly the named field and leaves the other
\* eleven as they were; a number is stored as it is (the counter's value
\* + 1, or value - 1 clamped at 0), a text as the number it parses to, and a
\* text that is no number, the empty text included, as 0; no field is ever
\* NaN.
C12_EditSetsOneField ==
    /\ \A f \in Fields : inputs[f].d > 0
    /\ [][/\ \A field \in TextFields, text \in Texts :
               InputGroupChange(field, text) =>
                  /\ inputs'[field] = TypedNumber(text)
                  /\ OthersUnchanged(field)
          /\ CounterPlus =>
                  /\ inputs'.totalOrders.n = inputs.totalOrders.n + 1
                  /\ inputs'.totalOrders.d = 1
                  /\ OthersUnchanged("totalOrders")
          /\ CounterMinus =>
                  /\ inputs'.totalOrders.n =
                        (IF inputs.totalOrders.n = 0 THEN 0
                         ELSE inputs.totalOrders.n - 1)
                  /\ OthersUnchanged("totalOrders")
          /\ \A f \in Fields : inputs'[f].d > 0]_vars

\* the selling price typed as a text that is no number is stored as 0 while
\* the order count clicked down to 8 stays 8
C12_Witness ==
    /\ pc = "app"
    /\ nEdits > 0
    /\ inputs.sellingPrice = Zero
    /\ inputs.totalOrders = Num(8)
    /\ \A g \in Fields \ {"sellingPrice", "totalOrders"} :
          inputs[g] = InitialInputs[g]

Palette == <<"#4F46E5", "#EF4444", "#F59E0B", "#10B981", "#6366F1",
             "#8B5CF6", "#EC4899">>

\* C13: the i-th entry of the distribution has the i-th palette color (its
\* index in the filtered list modulo the palette length), whatever its
\* declaration position, and no two entries of a list share a color.
C13_ColorByFilteredIndex ==
    pc = "chart" =>
       /\ \A i \in 1..Len(chartData) :
             chartData[i].color = Palette[((i - 1) % Len(Palette)) + 1]
       /\ \A i, j \in 1..Len(chartData) :
             i # j => chartData[i].color # chartData[j].color

\* Product dropped out: Ads, declared second, now has the first color
C13_Witness ==
    /\ pc = "chart"
    /\ ~Positive(results.totalProductCost)
    /\ Len(chartData) >= 2
    /\ chartData[1].name = "Ads"
    /\ chartData[1].color = "#4F46E5"
    /\ chartData[Len(chartData)].name = "Misc"
    /\ chartData[Len(chartData)].color # "#EC4899"
====
